---- MODULE Spec2Model ----
(***************************************************************************)
(* jsonq: path resolution and type coercion over a decoded JSON tree.      *)
(*                                                                         *)
(* Strings (path segments, object keys, string values) are sequences of    *)
(* one-character strings, so that tokenisation and number parsing work on  *)
(* characters as the Go code does.  A dynamic value is a record            *)
(* [t |-> tag, v |-> payload]; a float payload is the number times         *)
(* FloatScale.  A call's outcome is [kind |-> ..., val |-> ...] where kind *)
(* is "Value", one of the error kinds, or "Panic" (a Go run-time panic).   *)
(***************************************************************************)
EXTENDS Integers, Sequences, FiniteSets, TLC

VARIABLES j, parent, last

vars == <<j, parent, last>>

(* ------------------------------ bounds -------------------------------- *)
MaxStrLen == 3      \* characters in a string value
MaxPathLen == 4     \* characters in a raw path string
MaxSegs == 2        \* segments in a pre-split path
MaxArr == 3         \* elements in an array handed to the typed-array accessors

(* -------------------------- dynamic values ---------------------------- *)
FloatScale == 10 ^ (MaxStrLen + 1)

Null == [t |-> "null", v |-> 0]
BoolV(b) == [t |-> "bool", v |-> b]
IntV(i) == [t |-> "int", v |-> i]
FloatV(n) == [t |-> "float", v |-> n]
StrV(s) == [t |-> "str", v |-> s]
ArrV(a) == [t |-> "arr", v |-> a]
ObjV(m) == [t |-> "obj", v |-> m]
QueryV(q) == [t |-> "query", v |-> q]
NilQuery == [t |-> "nilquery", v |-> 0]

EmptyMap == [k \in {} |-> Null]

Val(v) == [kind |-> "Value", val |-> v]
Err(k, zero) == [kind |-> k, val |-> zero]
Panic == [kind |-> "Panic", val |-> Null]

\* an error of the callee becomes the caller's error with the caller's zero value
OnErr(r, zero) == IF r.kind = "Panic" THEN Panic ELSE Err(r.kind, zero)

(* ------------------------------ strconv ------------------------------- *)
Digits == {"0", "1", "2", "3", "4", "5", "6", "7", "8", "9"}

DigitVal(c) ==
  CASE c = "0" -> 0 [] c = "1" -> 1 [] c = "2" -> 2 [] c = "3" -> 3
    [] c = "4" -> 4 [] c = "5" -> 5 [] c = "6" -> 6 [] c = "7" -> 7
    [] c = "8" -> 8 [] c = "9" -> 9

\* the decimal digits of 1<<63, the cutoff of a signed 64-bit parse
Cutoff64 == <<"9", "2", "2", "3", "3", "7", "2", "0", "3", "6", "8", "5", "4", "7", "7", "5", "8", "0", "8">>

RECURSIVE StripZeros(_)
StripZeros(d) == IF Len(d) > 0 /\ d[1] = "0" THEN StripZeros(Tail(d)) ELSE d

\* -1, 0, 1 as the number written by digits a is below, equal to, above b
RECURSIVE LexCmp(_, _)
LexCmp(a, b) ==
  IF Len(a) = 0 THEN 0
  ELSE IF DigitVal(a[1]) < DigitVal(b[1]) THEN -1
  ELSE IF DigitVal(a[1]) > DigitVal(b[1]) THEN 1
  ELSE LexCmp(Tail(a), Tail(b))

MagCmp(a, b) ==
  LET x == StripZeros(a)
      y == StripZeros(b)
  IN IF Len(x) < Len(y) THEN -1
     ELSE IF Len(x) > Len(y) THEN 1
     ELSE LexCmp(x, y)

RECURSIVE Accumulate(_, _, _)
Accumulate(d, i, n) ==
  IF i > Len(d) THEN n ELSE Accumulate(d, i + 1, n * 10 + DigitVal(d[i]))

ParseFail == [ok |-> FALSE, v |-> 0]

\* the value of a signed digit string once the range check cmp is known
ParseRanged(neg, body, cmp) ==
  IF (~neg /\ cmp >= 0) \/ (neg /\ cmp > 0) THEN ParseFail
  ELSE [ok |-> TRUE, v |-> IF neg THEN 0 - Accumulate(body, 1, 0) ELSE Accumulate(body, 1, 0)]

ParseSigned(neg, body) ==
  IF Len(body) = 0 \/ \E i \in 1..Len(body) : body[i] \notin Digits THEN ParseFail
  ELSE ParseRanged(neg, body, MagCmp(body, Cutoff64))

\* strconv.ParseInt(s, 10, 0) on a 64-bit build
ParseInt(s) ==
  IF Len(s) = 0 THEN ParseFail
  ELSE ParseSigned(s[1] = "-", IF s[1] \in {"+", "-"} THEN Tail(s) ELSE s)

\* strconv.Atoi(s): the same language and value as ParseInt(s, 10, 0)
Atoi(s) == ParseInt(s)

\* index of the first "." in d, or Len(d) + 1
RECURSIVE DotPos(_, _)
DotPos(d, i) == IF i > Len(d) \/ d[i] = "." THEN i ELSE DotPos(d, i + 1)

ParseMantissa(neg, ip, fp) ==
  IF \/ Len(ip) + Len(fp) = 0
     \/ \E i \in 1..Len(ip) : ip[i] \notin Digits
     \/ \E i \in 1..Len(fp) : fp[i] \notin Digits
    THEN ParseFail
  ELSE [ok |-> TRUE,
        v |-> (IF neg THEN -1 ELSE 1)
                * (Accumulate(ip, 1, 0) * FloatScale
                   + (Accumulate(fp, 1, 0) * FloatScale) \div (10 ^ Len(fp)))]

ParseDotted(neg, body, dot) ==
  ParseMantissa(neg, SubSeq(body, 1, dot - 1), SubSeq(body, dot + 1, Len(body)))

ParseUnsigned(neg, body) == ParseDotted(neg, body, DotPos(body, 1))

\* strconv.ParseFloat(s, 64) on strings without exponent, hexadecimal,
\* underscore, infinity or NaN spellings: [sign] digits [. digits] with at
\* least one digit, the whole string
ParseFloat(s) ==
  IF Len(s) = 0 THEN ParseFail
  ELSE ParseUnsigned(s[1] = "-", IF s[1] \in {"+", "-"} THEN Tail(s) ELSE s)

\* int64(f): truncation toward zero
Trunc(n) == IF n >= 0 THEN n \div FloatScale ELSE 0 - ((0 - n) \div FloatScale)

(* ----------------------------- coercions ------------------------------ *)
stringFromInterface(val) ==
  IF val.t = "str" THEN Val(val) ELSE Err("TypeMismatch", StrV(<<>>))

boolFromInterface(val) ==
  IF val.t = "bool" THEN Val(val) ELSE Err("TypeMismatch", BoolV(FALSE))

\* case string of floatFromInterface: a failed parse leaves the switch
FloatFromString(p) == IF p.ok THEN Val(FloatV(p.v)) ELSE Err("TypeMismatch", FloatV(0))

floatFromInterface(val) ==
  CASE val.t = "float" -> Val(val)
    [] val.t = "int" -> Val(FloatV(val.v * FloatScale))
    [] val.t = "str" -> FloatFromString(ParseFloat(val.v))
    [] OTHER -> Err("TypeMismatch", FloatV(0))

\* mutant: the parse error is dropped and the zero it left is returned
IntFromStringUnchecked(p) == Val(IntV(p.v))

\* case string of intFromInterface: a failed parse leaves the switch
IntFromString(p) == IF p.ok THEN Val(IntV(p.v)) ELSE Err("TypeMismatch", IntV(0))

intFromInterface(val) ==
  CASE val.t = "float" -> Val(IntV(Trunc(val.v)))
    [] val.t = "str" -> IntFromString(ParseInt(val.v))
    [] val.t = "int" -> Val(val)
    [] OTHER -> Err("TypeMismatch", IntV(0))

objectFromInterface(val) ==
  IF val.t = "obj" THEN Val(val) ELSE Err("TypeMismatch", ObjV(EmptyMap))

arrayFromInterface(val) ==
  IF val.t = "arr" THEN Val(val) ELSE Err("TypeMismatch", ArrV(<<>>))

(* --------------------------- path resolver ---------------------------- *)
\* mutant: the closing bracket is not a delimiter
IsDelimNoClose(c) == c = "." \/ c = "["

IsDelim(c) == c = "." \/ c = "[" \/ c = "]"

\* strings.IndexAny(str, ".[]") != -1
IndexAny(str) == \E i \in 1..Len(str) : IsDelim(str[i])

\* strings.FieldsFunc(str, IsDelim): cur is the field being read, acc the
\* fields closed so far
RECURSIVE FieldsFuncFrom(_, _, _, _)
FieldsFuncFrom(str, i, cur, acc) ==
  IF i > Len(str) THEN (IF cur = <<>> THEN acc ELSE Append(acc, cur))
  ELSE IF IsDelim(str[i])
    THEN FieldsFuncFrom(str, i + 1, <<>>, IF cur = <<>> THEN acc ELSE Append(acc, cur))
  ELSE FieldsFuncFrom(str, i + 1, Append(cur, str[i]), acc)

FieldsFunc(str) == FieldsFuncFrom(str, 1, <<>>, <<>>)

\* the terms rquery walks
Terms(s) == IF Len(s) = 1 /\ IndexAny(s[1]) THEN FieldsFunc(s[1]) ELSE s

\* query once strconv.Atoi(q) has returned p
Lookup(blob, q, p) ==
  IF p.ok
    THEN IF blob.t # "arr" THEN Err("NotAnArray", Null)
         ELSE IF Len(blob.v) > p.v
           THEN (IF p.v < 0 THEN Panic ELSE Val(blob.v[p.v + 1]))
         ELSE Err("IndexOutOfBounds", Null)
  ELSE IF blob.t # "obj" THEN Err("NotAnObject", Null)
  ELSE IF q \notin DOMAIN blob.v THEN Err("KeyNotFound", Null)
  ELSE Val(blob.v[q])

\* query: one field or index
query(blob, q) == Lookup(blob, q, Atoi(q))

\* the loop of rquery over terms i..Len(terms), starting at val; Step is the
\* loop body once query has returned r
RECURSIVE Walk(_, _, _)
RECURSIVE Step(_, _, _)
Step(r, terms, i) == IF r.kind # "Value" THEN r ELSE Walk(r.val, terms, i + 1)

Walk(val, terms, i) ==
  IF i > Len(terms) THEN Val(val) ELSE Step(query(val, terms[i]), terms, i)

\* the nil check builds its message from s[len(s)-1]
NilCheck(r, s) ==
  IF r.kind # "Value" THEN r
  ELSE IF r.val.t = "null"
    THEN (IF Len(s) = 0 THEN Panic ELSE Err("NilValue", Null))
  ELSE r

rquery(blob, s) == NilCheck(Walk(blob, Terms(s), 1), s)

(* ------------------------------ contexts ------------------------------ *)
JsonQuery(blob, flag) == [blob |-> blob, SingleValuePanicOnError |-> flag]

NewQuery(data) == JsonQuery(data, FALSE)

(* ------------------------- fallible accessors ------------------------- *)
\* val, err := rquery(j.blob, s...); if err != nil { return zero, err };
\* return xFromInterface(val): r is what rquery returned
Coerce(shape, val) ==
  CASE shape = "String" -> stringFromInterface(val)
    [] shape = "Int" -> intFromInterface(val)
    [] shape = "Float" -> floatFromInterface(val)
    [] shape = "Bool" -> boolFromInterface(val)
    [] shape = "Object" -> objectFromInterface(val)
    [] shape = "Array" -> arrayFromInterface(val)

Zero(shape) ==
  CASE shape = "String" -> StrV(<<>>)
    [] shape = "Int" -> IntV(0)
    [] shape = "Float" -> FloatV(0)
    [] shape = "Bool" -> BoolV(FALSE)
    [] shape = "Object" -> ObjV(EmptyMap)
    [] shape = "Array" -> ArrV(<<>>)

Typed(shape, r) == IF r.kind # "Value" THEN OnErr(r, Zero(shape)) ELSE Coerce(shape, r.val)

Get(q, s) == rquery(q.blob, s)

Bool(q, s) == Typed("Bool", rquery(q.blob, s))

Float(q, s) == Typed("Float", rquery(q.blob, s))

Int_(q, s) == Typed("Int", rquery(q.blob, s))

Int64(q, s) == Typed("Int", rquery(q.blob, s))

String(q, s) == Typed("String", rquery(q.blob, s))

Object(q, s) == Typed("Object", rquery(q.blob, s))

Array(q, s) == Typed("Array", rquery(q.blob, s))

Interface(q, s) == rquery(q.blob, s)

ExistsOf(r) == IF r.kind = "Panic" THEN Panic ELSE Val(BoolV(r.kind = "Value"))

Exists(q, s) == ExistsOf(Interface(q, s))

\* mutant: the sub-query starts with the flag cleared, as NewQuery does
SubUnflagged(q, obj) == QueryV(JsonQuery(obj, FALSE))

Sub(q, obj) == QueryV(JsonQuery(obj, q.SingleValuePanicOnError))

QueryOf(q, obj) == IF obj.kind # "Value" THEN OnErr(obj, NilQuery) ELSE Val(Sub(q, obj.val))

Query(q, s) == QueryOf(q, Object(q, s))

(* ---------------------------- typed arrays ---------------------------- *)
\* toReturn := make([]T, len(array)); for index, val := range array { ... };
\* Assign is the loop body once the coercion has returned c
RECURSIVE CoerceLoop(_, _, _, _)
RECURSIVE Assign(_, _, _, _, _)
\* mutant: the loop goes on after a failed element and reports the failure at the end
AssignAndGoOn(shape, array, index, toReturn, c) ==
  IF c.kind # "Value"
    THEN Err(c.kind, CoerceLoop(shape, array, index + 1, [toReturn EXCEPT ![index] = c.val]).val)
  ELSE CoerceLoop(shape, array, index + 1, [toReturn EXCEPT ![index] = c.val])

Assign(shape, array, index, toReturn, c) ==
  IF c.kind # "Value" THEN Err(c.kind, ArrV([toReturn EXCEPT ![index] = c.val]))
  ELSE CoerceLoop(shape, array, index + 1, [toReturn EXCEPT ![index] = c.val])

CoerceLoop(shape, array, index, toReturn) ==
  IF index > Len(array) THEN Val(ArrV(toReturn))
  ELSE Assign(shape, array, index, toReturn, Coerce(shape, array[index]))

ArrayOfLoop(shape, array) ==
  IF array.kind # "Value" THEN OnErr(array, ArrV(<<>>))
  ELSE CoerceLoop(shape, array.val.v, 1, [i \in 1..Len(array.val.v) |-> Zero(shape)])

ArrayOfStrings(q, s) == ArrayOfLoop("String", Array(q, s))

ArrayOfInts(q, s) == ArrayOfLoop("Int", Array(q, s))

ArrayOfFloats(q, s) == ArrayOfLoop("Float", Array(q, s))

ArrayOfBools(q, s) == ArrayOfLoop("Bool", Array(q, s))

ArrayOfObjects(q, s) == ArrayOfLoop("Object", Array(q, s))

ArrayOfArrays(q, s) == ArrayOfLoop("Array", Array(q, s))

Matrix2D(q, s) == ArrayOfArrays(q, s)

\* for _, v := range val { res = append(res, &JsonQuery{...}) }
Wrap(q, val) == ArrV([i \in 1..Len(val) |-> Sub(q, val[i])])

ArrayOfQueryOf(q, val) == IF val.kind # "Value" THEN OnErr(val, ArrV(<<>>)) ELSE Val(Wrap(q, val.val.v))

ArrayOfQuery(q, s) == ArrayOfQueryOf(q, Array(q, s))

(* ----------------------- convenience accessors ------------------------ *)
\* mutant: the error is raised whatever the flag says
InlineRaising(q, r) == IF r.kind # "Value" THEN Panic ELSE Val(r.val)

\* mutant: the error is dropped whatever the flag says
InlineSilent(q, r) == IF r.kind = "Panic" THEN Panic ELSE Val(r.val)

\* val, err := j.X(s...); if err != nil { if flag { panic(err) } }; return val
Inline(q, r) ==
  IF r.kind = "Panic" THEN Panic
  ELSE IF r.kind # "Value" /\ q.SingleValuePanicOnError THEN Panic
  ELSE Val(r.val)

\* ... if err != nil { if flag { panic(err) }; return zero }; return val
InlineZero(q, r, zero) ==
  IF r.kind = "Panic" THEN Panic
  ELSE IF r.kind # "Value" THEN (IF q.SingleValuePanicOnError THEN Panic ELSE Val(zero))
  ELSE Val(r.val)

AsBool(q, s) == InlineZero(q, Bool(q, s), BoolV(FALSE))

AsFloat(q, s) == InlineZero(q, Float(q, s), FloatV(0))

AsInt(q, s) == Inline(q, Int_(q, s))

AsInt64(q, s) == Inline(q, Int64(q, s))

AsString(q, s) == Inline(q, String(q, s))

AsObject(q, s) == Inline(q, Object(q, s))

AsArray(q, s) == Inline(q, Array(q, s))

AsInterface(q, s) == Inline(q, Interface(q, s))

AsArrayOfStrings(q, s) == Inline(q, ArrayOfStrings(q, s))

AsArrayOfInts(q, s) == Inline(q, ArrayOfInts(q, s))

AsArrayOfFloats(q, s) == Inline(q, ArrayOfFloats(q, s))

AsArrayOfBools(q, s) == Inline(q, ArrayOfBools(q, s))

AsArrayOfObjects(q, s) == Inline(q, ArrayOfObjects(q, s))

AsArrayOfArrays(q, s) == Inline(q, ArrayOfArrays(q, s))

AsMatrix2D(q, s) == AsArrayOfArrays(q, s)

MustQueryOf(q, obj) == IF obj.kind # "Value" THEN Panic ELSE Val(Sub(q, obj.val))

MustQuery(q, s) == MustQueryOf(q, Object(q, s))

MustArrayOfQueryOf(q, val) ==
  IF val.kind = "Panic" THEN Panic
  ELSE IF val.kind # "Value" THEN Val(ArrV(<<>>))
  ELSE Val(Wrap(q, val.val.v))

MustArrayOfQuery(q, s) == MustArrayOfQueryOf(q, Array(q, s))

(* ------------------------------ inputs -------------------------------- *)
KA == <<"a">>
KB == <<"b">>
K1 == <<"1">>

Obj1(k, v) == ObjV([x \in {k} |-> v])
Obj2(k1, v1, k2, v2) == ObjV([x \in {k1, k2} |-> IF x = k1 THEN v1 ELSE v2])

Half7 == FloatV((7 * FloatScale) \div 2)      \* 3.5

Arr3(x, y, z) == ArrV(<<x, y, z>>)

\* the decoded documents the callers query
Trees ==
  { Null,
    Arr3(IntV(1), StrV(<<"x">>), IntV(3)),
    ArrV(<<Null, Obj1(KA, IntV(1))>>),
    Obj1(K1, IntV(1)),
    Obj1(KA, Obj1(KB, Arr3(IntV(1), IntV(2), IntV(3)))),
    Obj1(KA, Obj1(KB, Obj1(KA, Null))),
    Obj1(KA, Obj2(KA, StrV(<<"4", "2">>), KB, Null)),
    Obj2(KA, BoolV(TRUE), KB, ArrV(<<>>)),
    Obj2(KA, Half7, KB, Arr3(IntV(1), StrV(<<"x">>), IntV(3))),
    Obj2(KA, StrV(<<"4", "2">>), KB, Arr3(IntV(1), StrV(<<"2">>), Half7)),
    Obj2(KA, StrV(<<"x">>), KB, ArrV(<<BoolV(TRUE), BoolV(FALSE)>>)),
    Obj2(KA, IntV(1), KB, ArrV(<<Obj1(KA, IntV(1)), Obj1(KB, Null)>>)),
    Obj2(KA, Null, KB, ArrV(<<ArrV(<<IntV(1)>>), ArrV(<<>>)>>)) }

Segs == {KA, KB, K1, <<"-", "1">>}

SeqsUpTo(S, n) == UNION {[1..k -> S] : k \in 0..n}

Args == SeqsUpTo(Segs, MaxSegs)

(* ------------------------------ actions ------------------------------- *)
Start == [op |-> "NewQuery", s |-> <<>>, out |-> Val(Null)]

Init ==
  /\ \E data \in Trees : j = NewQuery(data)
  /\ parent = j
  /\ last = Start

\* the caller makes one call at a time and reads its result before the next
Idle == last = Start

Record(op, s, out) ==
  /\ Idle
  /\ last' = [op |-> op, s |-> s, out |-> out]
  /\ UNCHANGED <<j, parent>>

\* a call that hands back a sub-query: the caller goes on with it
Derive(op, s, out) ==
  /\ Idle
  /\ last' = [op |-> op, s |-> s, out |-> out]
  /\ IF out.kind = "Value"
       THEN j' = out.val.v /\ parent' = j
       ELSE UNCHANGED <<j, parent>>

\* the caller assigns the exported flag
SetSingleValuePanicOnError ==
  \E b \in BOOLEAN :
    /\ Idle
    /\ j.SingleValuePanicOnError # b
    /\ j' = [j EXCEPT !.SingleValuePanicOnError = b]
    /\ parent' = j'
    /\ last' = Start

\* the caller goes on with one element of a returned array of sub-queries
Enter ==
  /\ last.op \in {"ArrayOfQuery", "MustArrayOfQuery"}
  /\ last.out.kind = "Value"
  /\ \E i \in 1..Len(last.out.val.v) :
       /\ j' = last.out.val.v[i].v
       /\ parent' = j'
       /\ last' = [op |-> "Enter", s |-> last.s, out |-> Val(last.out.val.v[i])]

\* the caller is done with the result of its last call
Return ==
  /\ ~Idle
  /\ last' = Start
  /\ parent' = j
  /\ UNCHANGED j

CallGet == \E s \in Args : Record("Get", s, Get(j, s))

CallBool == \E s \in Args : Record("Bool", s, Bool(j, s))

CallFloat == \E s \in Args : Record("Float", s, Float(j, s))

CallInt == \E s \in Args : Record("Int", s, Int_(j, s))

CallInt64 == \E s \in Args : Record("Int64", s, Int64(j, s))

CallString == \E s \in Args : Record("String", s, String(j, s))

CallObject == \E s \in Args : Record("Object", s, Object(j, s))

CallArray == \E s \in Args : Record("Array", s, Array(j, s))

CallInterface == \E s \in Args : Record("Interface", s, Interface(j, s))

CallQuery == \E s \in Args : Derive("Query", s, Query(j, s))

CallArrayOfStrings == \E s \in Args : Record("ArrayOfStrings", s, ArrayOfStrings(j, s))

CallArrayOfInts == \E s \in Args : Record("ArrayOfInts", s, ArrayOfInts(j, s))

CallArrayOfFloats == \E s \in Args : Record("ArrayOfFloats", s, ArrayOfFloats(j, s))

CallArrayOfBools == \E s \in Args : Record("ArrayOfBools", s, ArrayOfBools(j, s))

CallArrayOfObjects == \E s \in Args : Record("ArrayOfObjects", s, ArrayOfObjects(j, s))

CallArrayOfArrays == \E s \in Args : Record("ArrayOfArrays", s, ArrayOfArrays(j, s))

CallMatrix2D == \E s \in Args : Record("Matrix2D", s, Matrix2D(j, s))

CallArrayOfQuery == \E s \in Args : Record("ArrayOfQuery", s, ArrayOfQuery(j, s))

CallExists == \E s \in Args : Record("Exists", s, Exists(j, s))

CallAsBool == \E s \in Args : Record("AsBool", s, AsBool(j, s))

CallAsFloat == \E s \in Args : Record("AsFloat", s, AsFloat(j, s))

CallAsInt == \E s \in Args : Record("AsInt", s, AsInt(j, s))

CallAsInt64 == \E s \in Args : Record("AsInt64", s, AsInt64(j, s))

CallAsString == \E s \in Args : Record("AsString", s, AsString(j, s))

CallAsObject == \E s \in Args : Record("AsObject", s, AsObject(j, s))

CallAsArray == \E s \in Args : Record("AsArray", s, AsArray(j, s))

CallAsInterface == \E s \in Args : Record("AsInterface", s, AsInterface(j, s))

CallAsArrayOfStrings == \E s \in Args : Record("AsArrayOfStrings", s, AsArrayOfStrings(j, s))

CallAsArrayOfInts == \E s \in Args : Record("AsArrayOfInts", s, AsArrayOfInts(j, s))

CallAsArrayOfFloats == \E s \in Args : Record("AsArrayOfFloats", s, AsArrayOfFloats(j, s))

CallAsArrayOfBools == \E s \in Args : Record("AsArrayOfBools", s, AsArrayOfBools(j, s))

CallAsArrayOfObjects == \E s \in Args : Record("AsArrayOfObjects", s, AsArrayOfObjects(j, s))

CallAsArrayOfArrays == \E s \in Args : Record("AsArrayOfArrays", s, AsArrayOfArrays(j, s))

CallAsMatrix2D == \E s \in Args : Record("AsMatrix2D", s, AsMatrix2D(j, s))

CallMustQuery == \E s \in Args : Derive("MustQuery", s, MustQuery(j, s))

CallMustArrayOfQuery == \E s \in Args : Record("MustArrayOfQuery", s, MustArrayOfQuery(j, s))

Next ==
  \/ CallGet
  \/ CallBool
  \/ CallFloat
  \/ CallInt
  \/ CallInt64
  \/ CallString
  \/ CallObject
  \/ CallArray
  \/ CallInterface
  \/ CallQuery
  \/ CallArrayOfStrings
  \/ CallArrayOfInts
  \/ CallArrayOfFloats
  \/ CallArrayOfBools
  \/ CallArrayOfObjects
  \/ CallArrayOfArrays
  \/ CallMatrix2D
  \/ CallArrayOfQuery
  \/ CallExists
  \/ CallAsBool
  \/ CallAsFloat
  \/ CallAsInt
  \/ CallAsInt64
  \/ CallAsString
  \/ CallAsObject
  \/ CallAsArray
  \/ CallAsInterface
  \/ CallAsArrayOfStrings
  \/ CallAsArrayOfInts
  \/ CallAsArrayOfFloats
  \/ CallAsArrayOfBools
  \/ CallAsArrayOfObjects
  \/ CallAsArrayOfArrays
  \/ CallAsMatrix2D
  \/ CallMustQuery
  \/ CallMustArrayOfQuery
  \/ SetSingleValuePanicOnError
  \/ Enter
  \/ Return

Spec == Init /\ [][Next]_vars

(* ----------------------------- dispatch ------------------------------- *)
FallibleOps == {"Get", "Bool", "Float", "Int", "Int64", "String", "Object", "Array", "Interface", "Query", "ArrayOfStrings", "ArrayOfInts", "ArrayOfFloats", "ArrayOfBools", "ArrayOfObjects", "ArrayOfArrays", "Matrix2D", "ArrayOfQuery"}

AsOps == {"AsBool", "AsFloat", "AsInt", "AsInt64", "AsString", "AsObject", "AsArray", "AsInterface", "AsArrayOfStrings", "AsArrayOfInts", "AsArrayOfFloats", "AsArrayOfBools", "AsArrayOfObjects", "AsArrayOfArrays", "AsMatrix2D"}

Call(op, q, s) ==
  CASE op = "Get" -> Get(q, s)
    [] op = "Bool" -> Bool(q, s)
    [] op = "Float" -> Float(q, s)
    [] op = "Int" -> Int_(q, s)
    [] op = "Int64" -> Int64(q, s)
    [] op = "String" -> String(q, s)
    [] op = "Object" -> Object(q, s)
    [] op = "Array" -> Array(q, s)
    [] op = "Interface" -> Interface(q, s)
    [] op = "Query" -> Query(q, s)
    [] op = "ArrayOfStrings" -> ArrayOfStrings(q, s)
    [] op = "ArrayOfInts" -> ArrayOfInts(q, s)
    [] op = "ArrayOfFloats" -> ArrayOfFloats(q, s)
    [] op = "ArrayOfBools" -> ArrayOfBools(q, s)
    [] op = "ArrayOfObjects" -> ArrayOfObjects(q, s)
    [] op = "ArrayOfArrays" -> ArrayOfArrays(q, s)
    [] op = "Matrix2D" -> Matrix2D(q, s)
    [] op = "ArrayOfQuery" -> ArrayOfQuery(q, s)
    [] op = "Exists" -> Exists(q, s)
    [] op = "AsBool" -> AsBool(q, s)
    [] op = "AsFloat" -> AsFloat(q, s)
    [] op = "AsInt" -> AsInt(q, s)
    [] op = "AsInt64" -> AsInt64(q, s)
    [] op = "AsString" -> AsString(q, s)
    [] op = "AsObject" -> AsObject(q, s)
    [] op = "AsArray" -> AsArray(q, s)
    [] op = "AsInterface" -> AsInterface(q, s)
    [] op = "AsArrayOfStrings" -> AsArrayOfStrings(q, s)
    [] op = "AsArrayOfInts" -> AsArrayOfInts(q, s)
    [] op = "AsArrayOfFloats" -> AsArrayOfFloats(q, s)
    [] op = "AsArrayOfBools" -> AsArrayOfBools(q, s)
    [] op = "AsArrayOfObjects" -> AsArrayOfObjects(q, s)
    [] op = "AsArrayOfArrays" -> AsArrayOfArrays(q, s)
    [] op = "AsMatrix2D" -> AsMatrix2D(q, s)
    [] op = "MustQuery" -> MustQuery(q, s)
    [] op = "MustArrayOfQuery" -> MustArrayOfQuery(q, s)

(* ---------------- string paths: specification SpecPath --------------- *)
PathAlphabet == {"a", "1", "-", ".", "[", "]"}

PathStrings == SeqsUpTo(PathAlphabet, MaxPathLen)

PathTrees ==
  { Null, IntV(1),
    ArrV(<<IntV(1), Null>>),
    ArrV(<<ArrV(<<IntV(1)>>), ArrV(<<IntV(2), ArrV(<<IntV(3), IntV(4)>>)>>)>>),
    Obj1(KA, Null),
    Obj1(KA, ArrV(<<IntV(1), Obj1(KA, IntV(2))>>)),
    Obj1(KA, Obj1(KA, IntV(1))),
    Obj1(KA, Obj1(K1, IntV(1))),
    Obj1(K1, ArrV(<<IntV(1), IntV(2)>>)),
    Obj1(<<"-", "1">>, IntV(1)),
    Obj2(<<"a", "1">>, IntV(1), <<"1", "a">>, Obj1(KA, Null)),
    Obj2(KA, Obj1(<<"-">>, IntV(1)), <<"a", "a">>, ArrV(<<IntV(1)>>)) }

InitPath ==
  /\ \E data \in PathTrees : j = NewQuery(data)
  /\ parent = j
  /\ last = Start

\* Get called with one raw path string
CallGetPath == \E str \in PathStrings : Record("Get", <<str>>, Get(j, <<str>>))

NextPath == CallGetPath \/ Return

SpecPath == InitPath /\ [][NextPath]_vars

(* ---------------- typed arrays: specification SpecArr ----------------- *)
ArrElems ==
  {IntV(1), StrV(<<"2">>), StrV(<<"2", ".", "5">>), StrV(<<"x">>), Half7, BoolV(TRUE), Null, ObjV(EmptyMap), ArrV(<<>>)}

ArrInputs == {Obj1(KA, ArrV(a)) : a \in SeqsUpTo(ArrElems, MaxArr)}

InitArr ==
  /\ \E data \in ArrInputs : j = NewQuery(data)
  /\ parent = j
  /\ last = Start

TypedArrayOfStrings == Record("ArrayOfStrings", <<KA>>, ArrayOfStrings(j, <<KA>>))

TypedArrayOfInts == Record("ArrayOfInts", <<KA>>, ArrayOfInts(j, <<KA>>))

TypedArrayOfFloats == Record("ArrayOfFloats", <<KA>>, ArrayOfFloats(j, <<KA>>))

TypedArrayOfBools == Record("ArrayOfBools", <<KA>>, ArrayOfBools(j, <<KA>>))

TypedArrayOfObjects == Record("ArrayOfObjects", <<KA>>, ArrayOfObjects(j, <<KA>>))

TypedArrayOfArrays == Record("ArrayOfArrays", <<KA>>, ArrayOfArrays(j, <<KA>>))

NextArr ==
  \/ TypedArrayOfStrings
  \/ TypedArrayOfInts
  \/ TypedArrayOfFloats
  \/ TypedArrayOfBools
  \/ TypedArrayOfObjects
  \/ TypedArrayOfArrays
  \/ Return

SpecArr == InitArr /\ [][NextArr]_vars

(* ----------------- coercions: specification SpecCoerce ---------------- *)
StrAlphabet == {"4", "2", "-", "+", "x"}

\* 1<<63 and 1<<63 + 1 written out: just outside the signed 64-bit range
TooBig == Cutoff64
TooSmall == <<"-">> \o SubSeq(Cutoff64, 1, Len(Cutoff64) - 1) \o <<"9">>

CoerceInputs ==
  {Null, BoolV(TRUE), BoolV(FALSE), IntV(0), IntV(42), IntV(-7), Half7, FloatV(0 - (5 * FloatScale) \div 2)}
    \cup {StrV(s) : s \in SeqsUpTo(StrAlphabet, MaxStrLen) \cup {TooBig, TooSmall}}
    \cup {ArrV(<<>>), ArrV(<<IntV(1)>>), ObjV(EmptyMap), Obj1(KA, IntV(1)), Obj1(K1, IntV(1))}

InitCoerce ==
  /\ \E data \in CoerceInputs : j = NewQuery(data)
  /\ parent = j
  /\ last = Start

ApplyIntFromInterface == Record("intFromInterface", <<>>, intFromInterface(j.blob))

ApplyBoolFromInterface == Record("boolFromInterface", <<>>, boolFromInterface(j.blob))

ApplyStringFromInterface == Record("stringFromInterface", <<>>, stringFromInterface(j.blob))

ApplyObjectFromInterface == Record("objectFromInterface", <<>>, objectFromInterface(j.blob))

ApplyArrayFromInterface == Record("arrayFromInterface", <<>>, arrayFromInterface(j.blob))

NextCoerce ==
  \/ ApplyIntFromInterface
  \/ ApplyBoolFromInterface
  \/ ApplyStringFromInterface
  \/ ApplyObjectFromInterface
  \/ ApplyArrayFromInterface
  \/ Return

SpecCoerce == InitCoerce /\ [][NextCoerce]_vars

(* ------------------------------- claims ------------------------------- *)
\* the fields of str: the maximal runs of characters other than ".", "[", "]"
RefRuns(str) ==
  {r \in (1..Len(str)) \X (1..Len(str)) :
     /\ r[1] <= r[2]
     /\ \A i \in r[1]..r[2] : str[i] \notin {".", "[", "]"}
     /\ r[1] = 1 \/ str[r[1] - 1] \in {".", "[", "]"}
     /\ r[2] = Len(str) \/ str[r[2] + 1] \in {".", "[", "]"}}

RefPick(str, runs, k) ==
  LET r == CHOOSE x \in runs : Cardinality({y \in runs : y[1] < x[1]}) = k - 1
  IN SubSeq(str, r[1], r[2])

RefTokens(str) == [k \in 1..Cardinality(RefRuns(str)) |-> RefPick(str, RefRuns(str), k)]

\* C1: a raw path string with at least one key or index token resolves to the
\* same outcome (the same value, or an error of the same kind) as the sequence
\* of its tokens, split on runs of ".", "[", "]" with empty tokens dropped.
C1_StringPathEqualsSegments ==
  (last.op = "Get" /\ Len(last.s) = 1 /\ RefTokens(last.s[1]) # <<>>)
    => LET r == rquery(j.blob, RefTokens(last.s[1]))
       IN last.out.kind = r.kind /\ last.out.val = r.val

C1_Witness ==
  /\ last.op = "Get"
  /\ last.s = << <<"a", "[", "1", "]">> >>
  /\ last.out = Val(Obj1(KA, IntV(2)))

\* whole-string base-10 integer: an optional sign, then one or more digits
RefDigits(q) == IF Len(q) > 0 /\ q[1] \in {"+", "-"} THEN Tail(q) ELSE q

RefIsInt(q) == Len(RefDigits(q)) > 0 /\ \A i \in 1..Len(RefDigits(q)) : RefDigits(q)[i] \in Digits

RECURSIVE RefMagnitude(_)
RefMagnitude(d) ==
  IF Len(d) = 0 THEN 0 ELSE DigitVal(d[1]) * 10 ^ (Len(d) - 1) + RefMagnitude(Tail(d))

RefNumber(q) == IF q[1] = "-" THEN 0 - RefMagnitude(RefDigits(q)) ELSE RefMagnitude(RefDigits(q))

\* what C2 says of one segment q applied to cur when the call returned out
\* (a null element found last is reported as NilValue)
RefFound(elem, out) == IF elem.t = "null" THEN out.kind = "NilValue" ELSE out = Val(elem)

RefSegment(cur, q, out) ==
  IF RefIsInt(q)
    THEN IF cur.t # "arr" THEN out.kind = "NotAnArray"
         ELSE IF RefNumber(q) >= Len(cur.v) THEN out.kind = "IndexOutOfBounds"
         ELSE /\ RefNumber(q) + 1 \in 1..Len(cur.v)
              /\ RefFound(cur.v[RefNumber(q) + 1], out)
  ELSE IF cur.t # "obj" THEN out.kind = "NotAnObject"
  ELSE IF q \notin DOMAIN cur.v THEN out.kind = "KeyNotFound"
  ELSE RefFound(cur.v[q], out)

RefLastSegment(before, q, out) ==
  IF before.kind # "Value" THEN out.kind = before.kind ELSE RefSegment(before.val, q, out)

\* C2: resolution stops at the first failing segment with that segment's
\* error; an integer segment needs a sequence (NotAnArray) and an index below
\* its length (IndexOutOfBounds) and otherwise yields the element at the index;
\* any other segment needs a mapping (NotAnObject) holding the key (KeyNotFound).
C2_SegmentSemantics ==
  (last.op = "Get" /\ Len(last.s) > 0)
    => RefLastSegment(Walk(j.blob, SubSeq(last.s, 1, Len(last.s) - 1), 1),
                      last.s[Len(last.s)], last.out)

\* C3: no fallible accessor panics; a negative index on a sequence is an
\* out-of-bounds error value.
C3_NeverPanics ==
  /\ last.op \in FallibleOps => last.out.kind # "Panic"
  /\ (/\ last.op = "Get"
      /\ last.s = << <<"-", "1">> >>
      /\ j.blob.t = "arr") => last.out.kind = "IndexOutOfBounds"

\* C4: with no path arguments the accessor returns the root unchanged, or
\* fails with a NilValue error value when the root is null.
C4_EmptyPath ==
  (last.op \in {"Get", "Interface"} /\ last.s = <<>>)
    => IF j.blob.t = "null" THEN last.out.kind = "NilValue" ELSE last.out = Val(j.blob)

\* the context the last call was made on: a successful Query or MustQuery has
\* moved j to the sub-query
Receiver == parent

\* C5: when every segment resolves and the value found is null, every fallible
\* accessor fails with NilValue and Exists returns false.
C5_NullIsNilValue ==
  (Terms(last.s) = last.s /\ Walk(Receiver.blob, last.s, 1) = Val(Null))
    => /\ last.op \in FallibleOps => last.out.kind = "NilValue"
       /\ last.op = "Exists" => last.out = Val(BoolV(FALSE))

\* the fallible accessor under a convenience accessor, and its zero value
Underlying(op) ==
  CASE op = "MustQuery" -> "Query"
    [] op = "MustArrayOfQuery" -> "ArrayOfQuery"
    [] op = "AsBool" -> "Bool" [] op = "AsFloat" -> "Float" [] op = "AsInt" -> "Int"
    [] op = "AsInt64" -> "Int64" [] op = "AsString" -> "String" [] op = "AsObject" -> "Object"
    [] op = "AsArray" -> "Array" [] op = "AsInterface" -> "Interface"
    [] op = "AsArrayOfStrings" -> "ArrayOfStrings" [] op = "AsArrayOfInts" -> "ArrayOfInts"
    [] op = "AsArrayOfFloats" -> "ArrayOfFloats" [] op = "AsArrayOfBools" -> "ArrayOfBools"
    [] op = "AsArrayOfObjects" -> "ArrayOfObjects" [] op = "AsArrayOfArrays" -> "ArrayOfArrays"
    [] op = "AsMatrix2D" -> "Matrix2D"

RefZero(op) ==
  CASE op = "AsBool" -> BoolV(FALSE)
    [] op = "AsFloat" -> FloatV(0)
    [] op \in {"AsInt", "AsInt64"} -> IntV(0)
    [] op = "AsString" -> StrV(<<>>)
    [] op = "AsObject" -> ObjV(EmptyMap)
    [] op = "AsInterface" -> Null
    [] op = "MustQuery" -> NilQuery
    [] OTHER -> ArrV(<<>>)

ConvenienceOps == AsOps \cup {"MustQuery", "MustArrayOfQuery"}

\* the fallible accessor under the last call returned an error value
UnderlyingFailed ==
  /\ last.op \in ConvenienceOps
  /\ Call(Underlying(last.op), Receiver, last.s).kind \notin {"Value", "Panic"}

TypedArrayOps ==
  {"ArrayOfStrings", "ArrayOfInts", "ArrayOfFloats", "ArrayOfBools", "ArrayOfObjects", "ArrayOfArrays"}

ShapeOf(op) ==
  CASE op = "ArrayOfStrings" -> "String" [] op = "ArrayOfInts" -> "Int"
    [] op = "ArrayOfFloats" -> "Float" [] op = "ArrayOfBools" -> "Bool"
    [] op = "ArrayOfObjects" -> "Object" [] op = "ArrayOfArrays" -> "Array"

RefFailing(shape, src) == {i \in 1..Len(src) : Coerce(shape, src[i]).kind # "Value"}

RefTypedArray(shape, src, out) ==
  /\ Len(out.val.v) = Len(src)
  /\ IF RefFailing(shape, src) = {}
       THEN /\ out.kind = "Value"
            /\ \A i \in 1..Len(src) : out.val.v[i] = Coerce(shape, src[i]).val
       ELSE LET k == CHOOSE i \in RefFailing(shape, src) : \A m \in RefFailing(shape, src) : i <= m
            IN /\ out.kind = Coerce(shape, src[k]).kind
               /\ \A i \in 1..(k - 1) : out.val.v[i] = Coerce(shape, src[i]).val
               /\ \A i \in k..Len(src) : out.val.v[i] = Zero(shape)

\* C8: a typed-array accessor over a sequence fails with the coercion error of
\* the lowest-index failing element, the elements before it coerced and those
\* after it left unprocessed; with no failing element the result has the
\* source's length and element i is the coercion of source element i.
C8_TypedArrayShortCircuit ==
  (last.op \in TypedArrayOps /\ last.s = <<KA>> /\ j.blob.t = "obj" /\ j.blob.v[KA].t = "arr")
    => RefTypedArray(ShapeOf(last.op), j.blob.v[KA].v, last.out)

C8_Witness ==
  /\ last.op = "ArrayOfInts"
  /\ j.blob = Obj1(KA, ArrV(<<IntV(1), StrV(<<"x">>), StrV(<<"2">>)>>))
  /\ last.out = Err("TypeMismatch", ArrV(<<IntV(1), IntV(0), IntV(0)>>))

\* the digits a write a smaller number than the digits b of the same length
RefDigitsBelow(a, b) ==
  \E i \in 1..Len(a) : DigitVal(a[i]) < DigitVal(b[i]) /\ \A m \in 1..(i - 1) : a[m] = b[m]

RefSignificant(d) ==
  LET z == {i \in 1..Len(d) : d[i] # "0"}
  IN IF z = {} THEN <<>> ELSE SubSeq(d, CHOOSE i \in z : \A m \in z : i <= m, Len(d))

RefFits64(q) ==
  LET d == RefSignificant(RefDigits(q))
  IN \/ Len(d) < Len(Cutoff64)
     \/ Len(d) = Len(Cutoff64) /\ (RefDigitsBelow(d, Cutoff64) \/ (q[1] = "-" /\ d = Cutoff64))

RefNonBoolean == last.op = "boolFromInterface" /\ j.blob.t # "bool" => last.out.kind = "TypeMismatch"

RefNonString ==
  last.op = "intFromInterface" =>
    /\ j.blob.t = "int" => last.out = Val(j.blob)
    /\ j.blob.t \in {"bool", "obj", "arr"} => last.out.kind = "TypeMismatch"
    /\ (j.blob.t = "str" /\ ~RefIsInt(j.blob.v)) => last.out.kind = "TypeMismatch"

AsTypedArrayOps ==
  {"AsArrayOfStrings", "AsArrayOfInts", "AsArrayOfFloats", "AsArrayOfBools",
   "AsArrayOfObjects", "AsArrayOfArrays", "AsMatrix2D"}

AsShapeOf(op) ==
  CASE op = "AsArrayOfStrings" -> "String" [] op = "AsArrayOfInts" -> "Int"
    [] op = "AsArrayOfFloats" -> "Float" [] op = "AsArrayOfBools" -> "Bool"
    [] op = "AsArrayOfObjects" -> "Object" [] op \in {"AsArrayOfArrays", "AsMatrix2D"} -> "Array"

\* the sequence a failed typed-array accessor hands back: empty when no
\* sequence was found, else the source's length, filled up to the failing element
RefPartial(shape, found, out) ==
  IF found.kind # "Value" THEN out = Val(ArrV(<<>>))
  ELSE /\ out.kind = "Value"
       /\ RefTypedArray(shape, found.val.v, Err("TypeMismatch", out.val))

C9_IntegerString ==
  /\ RefNonBoolean
  /\ RefNonString
  /\ (last.op = "intFromInterface" /\ j.blob.t = "str" /\ RefIsInt(j.blob.v))
       => (last.out.kind = "Value" /\ last.out.val = IntV(RefNumber(j.blob.v)))

\* C9 amended: coercion to integer yields an integer itself, the value of a
\* string that is entirely a base-10 integer within the signed 64-bit range,
\* and a TypeMismatch error for any other string, a boolean, a mapping and a
\* sequence; coercion to boolean of a non-boolean yields a TypeMismatch error.
C9_IntegerStringInRange ==
  /\ RefNonBoolean
  /\ RefNonString
  /\ (last.op = "intFromInterface" /\ j.blob.t = "str" /\ RefIsInt(j.blob.v))
       => IF RefFits64(j.blob.v)
            THEN last.out.kind = "Value" /\ last.out.val = IntV(RefNumber(j.blob.v))
            ELSE last.out.kind = "TypeMismatch"

C9_Witness ==
  /\ last.op = "intFromInterface"
  /\ j.blob = StrV(<<"4", "2">>)
  /\ last.out = Val(IntV(42))

\* C10: a sub-query derived by Query(p) carries the panic flag of the context
\* it was derived from, and every fallible accessor called on it with a path q
\* gives the outcome of the same accessor on that context with p followed by q.
C10_QueryComposes ==
  (last.op = "Query" /\ last.out.kind = "Value")
    => /\ j.SingleValuePanicOnError = parent.SingleValuePanicOnError
       /\ \A op \in FallibleOps : \A q \in Args :
            Call(op, j, q) = Call(op, parent, last.s \o q)

C10_Witness ==
  /\ last.op = "Query"
  /\ last.out.kind = "Value"
  /\ last.s = <<KA>>
  /\ j.SingleValuePanicOnError
  /\ Int_(j, <<KB, K1>>) = Val(IntV(2))

====
